---- MODULE Spec2Model ----
(***************************************************************************)
(* A model of xinfer: the model registry and factory (core.py), the three  *)
(* backend wrappers' constructors and their preprocess / infer /           *)
(* infer_batch pipelines (timm_model.py, transformers/auto.py,             *)
(* transformers/moondream.py).                                             *)
(*                                                                         *)
(* Python strings are sequences of one-character strings, so that          *)
(* str.lower, `in`, str.startswith and len are computed, not assumed.      *)
(* A Python value is a record [t, s, items]: t is its type tag, s the      *)
(* characters of a str, items the elements of a list.                      *)
(***************************************************************************)
EXTENDS Integers, Sequences, FiniteSets, TLC

VARIABLES
    registry,         \* model_registry: the registered entries, in registration order
    out,              \* the registry or core operation last run: its arguments and
                      \* what it printed, returned or raised
    inst,             \* the wrapper construction last attempted and its outcome
    call,             \* the preprocess / infer / infer_batch call last made and its outcome
    inference_count,  \* Vision2SeqModel.stats: the running inference count
    processed         \* history: logical inputs the Vision2SeqModel calls returned results for

vars == <<registry, out, inst, call, inference_count, processed>>

----------------------------------------------------------------------------
(* Bounds of the model.                                                    *)

MaxReg == 3       \* registry entries
MaxLimit == 2     \* largest display limit passed to list_models
MaxBatch == 2     \* longest image / prompt list passed to a wrapper
MaxCount == 4     \* calls are made while the inference count is below this

----------------------------------------------------------------------------
(* Python values.                                                          *)

PyNone == [t |-> "none", s |-> <<>>, items |-> <<>>]
PyInt == [t |-> "int", s |-> <<>>, items |-> <<>>]
PyStr(chars) == [t |-> "str", s |-> chars, items |-> <<>>]
PyList(xs) == [t |-> "list", s |-> <<>>, items |-> xs]

\* str.lower on the characters the model uses
LowerChar(c) ==
    CASE c = "B" -> "b"
      [] c = "M" -> "m"
      [] c = "O" -> "o"
      [] c = "N" -> "n"
      [] c = "T" -> "t"
      [] c = "V" -> "v"
      [] c = "I" -> "i"
      [] OTHER -> c

lower(chars) == [i \in 1..Len(chars) |-> LowerChar(chars[i])]

\* Python's `sub in s` on strings
StrIn(sub, s) ==
    \E i \in 0..(Len(s) - Len(sub)) : SubSeq(s, i + 1, i + Len(sub)) = sub

\* str.startswith(prefix)
startswith(s, prefix) ==
    /\ Len(s) >= Len(prefix)
    /\ SubSeq(s, 1, Len(prefix)) = prefix

\* rows[:n]
SlicePrefix(rows, n) ==
    IF n >= 0
    THEN SubSeq(rows, 1, IF n < Len(rows) THEN n ELSE Len(rows))
    ELSE SubSeq(rows, 1, IF Len(rows) + n > 0 THEN Len(rows) + n ELSE 0)

----------------------------------------------------------------------------
(* Wrapper construction: TimmModel, Vision2SeqModel, Moondream.            *)

Classes == {"TimmModel", "Vision2SeqModel", "Moondream"}
Devices == {"cpu", "cuda", "auto"}
Dtypes == {"float32", "float16", "bfloat16", "int8", "float64"}

\* the environment of a construction: is CUDA available, does the external load succeed
CtorEnvs == [cuda : BOOLEAN, loadOK : BOOLEAN]

dtype_map ==
    [d \in {"float32", "float16", "bfloat16"} |->
        CASE d = "float32" -> "torch.float32"
          [] d = "float16" -> "torch.float16"
          [] d = "bfloat16" -> "torch.bfloat16"]

NoInst ==
    [cls |-> "none", model_id |-> <<>>, device_arg |-> "none", dtype_arg |-> "none",
     cuda |-> FALSE, loadOK |-> FALSE, outcome |-> "none", events |-> <<>>,
     device |-> "none", dtype |-> "none", state |-> "Unloaded"]

\* a construction that raised `error` after the external calls in `events`
CtorRaise(cls, model_id, device_arg, dtype_arg, env, error, events) ==
    [cls |-> cls, model_id |-> model_id, device_arg |-> device_arg,
     dtype_arg |-> dtype_arg, cuda |-> env.cuda, loadOK |-> env.loadOK,
     outcome |-> error, events |-> events,
     device |-> "none", dtype |-> "none", state |-> "Unloaded"]

\* .to(device, dtype) of the external library: the device has to exist
DeviceUsable(device, env) ==
    \/ device = "cpu"
    \/ device = "cuda" /\ env.cuda

\* self.load_model(): the external loaders are called in `loaders` order; a failure
\* inside them propagates unmodified
load_model(cls, model_id, device_arg, dtype_arg, env, device, dtype, loaders) ==
    IF env.loadOK /\ DeviceUsable(device, env)
    THEN [cls |-> cls, model_id |-> model_id, device_arg |-> device_arg,
          dtype_arg |-> dtype_arg, cuda |-> env.cuda, loadOK |-> env.loadOK,
          outcome |-> "ok", events |-> loaders,
          device |-> device, dtype |-> dtype, state |-> "Loaded"]
    ELSE CtorRaise(cls, model_id, device_arg, dtype_arg, env, "ExternalError",
                   <<loaders[1]>>)

\* a plausible slip: the model is loaded before dtype is validated
TimmModel_init_LoadFirst(model_id, device, dtype, env) ==
    IF dtype \notin DOMAIN dtype_map
    THEN CtorRaise("TimmModel", model_id, device, dtype, env, "ValueError",
                   <<"timm.create_model">>)
    ELSE load_model("TimmModel", model_id, device, dtype, env, device,
                    dtype_map[dtype], <<"timm.create_model">>)

TimmModel_init(model_id, device, dtype, env) ==
    IF dtype \notin DOMAIN dtype_map
    THEN CtorRaise("TimmModel", model_id, device, dtype, env, "ValueError", <<>>)
    ELSE load_model("TimmModel", model_id, device, dtype, env, device,
                    dtype_map[dtype], <<"timm.create_model">>)

Vision2SeqModel_init(model_id, device, dtype, env) ==
    IF dtype \notin DOMAIN dtype_map
    THEN CtorRaise("Vision2SeqModel", model_id, device, dtype, env, "ValueError", <<>>)
    ELSE load_model("Vision2SeqModel", model_id, device, dtype, env, device,
                    dtype_map[dtype],
                    <<"AutoProcessor.from_pretrained",
                      "AutoModelForVision2Seq.from_pretrained">>)

\* device = "cuda" if device == "auto" and torch.cuda.is_available() else "cpu"
Moondream_device(device, env) ==
    IF device = "auto" /\ env.cuda THEN "cuda" ELSE "cpu"

Moondream_init(model_id, device, dtype, env) ==
    IF dtype \notin DOMAIN dtype_map
    THEN CtorRaise("Moondream", model_id, device, dtype, env, "ValueError", <<>>)
    ELSE load_model("Moondream", model_id, device, dtype, env,
                    Moondream_device(device, env), dtype_map[dtype],
                    <<"AutoModelForCausalLM.from_pretrained",
                      "AutoTokenizer.from_pretrained">>)

Construct(cls, model_id, device, dtype, env) ==
    CASE cls = "TimmModel" -> TimmModel_init(model_id, device, dtype, env)
      [] cls = "Vision2SeqModel" -> Vision2SeqModel_init(model_id, device, dtype, env)
      [] cls = "Moondream" -> Moondream_init(model_id, device, dtype, env)

----------------------------------------------------------------------------
(* The model registry and core.py.                                         *)

MoondreamId ==
    <<"v","i","k","h","y","a","t","k","/","m","o","o","n","d","r","e","a","m","2">>
BlipId == <<"B","l","i","p">>
VitId == <<"v","i","T">>
UnknownId == <<"x">>

\* @register_model("vikhyatk/moondream2", "transformers", IMAGE_TEXT_TO_TEXT)
MoondreamEntry ==
    [id |-> MoondreamId, implementation |-> "transformers",
     input_output |-> "image-text --> text", cls |-> "Moondream"]

\* the registrations the program may make
Registrations ==
    { MoondreamEntry,
      [id |-> BlipId, implementation |-> "transformers",
       input_output |-> "image-text --> text", cls |-> "Vision2SeqModel"],
      [id |-> VitId, implementation |-> "timm",
       input_output |-> "image --> class", cls |-> "TimmModel"],
      [id |-> VitId, implementation |-> "transformers",
       input_output |-> "image --> text", cls |-> "Vision2SeqModel"],
      [id |-> <<"M","o","b">>, implementation |-> "timm",
       input_output |-> "image --> class", cls |-> "TimmModel"] }

ModelIds == {e.id : e \in Registrations} \cup {UnknownId}

RegisteredIds(reg) == {reg[i].id : i \in 1..Len(reg)}

\* model_registry.register: ids are unique, the last registration of an id wins
register(reg, e) ==
    IF e.id \in RegisteredIds(reg)
    THEN [i \in 1..Len(reg) |-> IF reg[i].id = e.id THEN e ELSE reg[i]]
    ELSE Append(reg, e)

\* model_registry.list_models: every entry, in registration order
registry_list_models(reg) == reg

LookupFailed(model_id) ==
    [cls |-> "none", model_id |-> model_id, device_arg |-> "none",
     dtype_arg |-> "none", cuda |-> FALSE, loadOK |-> FALSE,
     outcome |-> "LookupError", events |-> <<>>,
     device |-> "none", dtype |-> "none", state |-> "Unloaded"]

\* model_registry.get_model: a lookup error for an absent id, else the wrapper is built
get_model(reg, model_id, kwargs, env) ==
    IF model_id \notin RegisteredIds(reg)
    THEN LookupFailed(model_id)
    ELSE LET e == CHOOSE x \in {reg[i] : i \in 1..Len(reg)} : x.id = model_id
         IN  Construct(e.cls, model_id, kwargs.device, kwargs.dtype, env)

\* a plausible slip: an unknown id falls back to the default wrapper
create_model_Fallback(reg, model_id, kwargs, env) ==
    IF model_id \notin RegisteredIds(reg)
    THEN Construct("Moondream", MoondreamId, kwargs.device, kwargs.dtype, env)
    ELSE get_model(reg, model_id, kwargs, env)

create_model(reg, model_id, kwargs, env) == get_model(reg, model_id, kwargs, env)

EllipsisRow == <<"...", <<".", ".", ".">>, "...">>

Row(model_info) ==
    <<model_info.implementation, model_info.id, model_info.input_output>>

\* a plausible slip: the id is compared without lowering it
RECURSIVE FilterRows_NoLower(_, _)
FilterRows_NoLower(infos, wildcard) ==
    IF infos = <<>> THEN <<>>
    ELSE LET rest == FilterRows_NoLower(Tail(infos), wildcard)
         IN  IF wildcard = PyNone \/ StrIn(lower(wildcard.s), Head(infos).id)
             THEN <<Row(Head(infos))>> \o rest
             ELSE rest

\* list_models, the loop that collects the rows
RECURSIVE FilterRows(_, _)
FilterRows(infos, wildcard) ==
    IF infos = <<>> THEN <<>>
    ELSE LET rest == FilterRows(Tail(infos), wildcard)
         IN  IF wildcard = PyNone \/ StrIn(lower(wildcard.s), lower(Head(infos).id))
             THEN <<Row(Head(infos))>> \o rest
             ELSE rest

\* a plausible slip: one ellipsis row instead of two
Truncate_OneEllipsis(rows, limit) ==
    IF Len(rows) > limit
    THEN SlicePrefix(rows, limit) \o <<EllipsisRow>>
    ELSE rows

\* list_models, the cap at the display limit
Truncate(rows, limit) ==
    IF Len(rows) > limit
    THEN SlicePrefix(rows, limit) \o <<EllipsisRow, EllipsisRow>>
    ELSE rows

list_models(reg, wildcard, limit) ==
    Truncate(FilterRows(registry_list_models(reg), wildcard), limit)

Wildcards ==
    { PyNone, PyStr(<<>>), PyStr(<<"M","O","O","N">>), PyStr(<<"v","i">>),
      PyStr(<<"b">>), PyStr(<<"x">>) }
Limits == (-1)..MaxLimit

\* the keyword arguments and environments create_model is tried with
Kwargs == [device : Devices, dtype : {"float32", "int8"}]
CreateEnvs == CtorEnvs

NoOut == [op |-> "none"]

----------------------------------------------------------------------------
(* preprocess / infer / infer_batch of the three wrappers.                 *)

\* The file system and the network the calls run against: one file exists and
\* one does not, one host answers and one does not.
PathA == <<"a", "1">>
PathMissing == <<"m", "1">>
UrlUp == <<"h", "t", "t", "p", ":", "/", "/", "u">>
UrlDown == <<"h", "t", "t", "p", "s", ":", "/", "/", "d">>
ExistingFiles == {PathA}
ReachableUrls == {UrlUp}

HttpPrefix == <<"h", "t", "t", "p", ":", "/", "/">>
HttpsPrefix == <<"h", "t", "t", "p", "s", ":", "/", "/">>

\* image_path.startswith(("http://", "https://"))
IsUrl(chars) == startswith(chars, HttpPrefix) \/ startswith(chars, HttpsPrefix)

\* `if not isinstance(x, list): x = [x]`
AsList(x) == IF x.t = "list" THEN x.items ELSE <<x>>

\* len(x) of a list or a str
PyLen(x) == IF x.t = "list" THEN Len(x.items) ELSE Len(x.s)

\* Loading one image. A step is [outcome, message, path, events]: what loading
\* the image raised (or "ok"), the error's message and the path it names, and
\* the I/O it did.
LoadStep(outcome, message, path, events) ==
    [outcome |-> outcome, message |-> message, path |-> path, events |-> events]

NotAString == LoadStep("ValueError", "Input must be a string (local path or URL)", <<>>, <<>>)

\* requests.get(image_path): a network error is not caught by any wrapper
Fetch(image_path) ==
    IF image_path.s \in ReachableUrls
    THEN LoadStep("ok", "", <<>>, <<"requests.get", "Image.open">>)
    ELSE LoadStep("RequestException", "", <<>>, <<"requests.get">>)

\* timm_model.py: Image.open(image_path), no handler around it
TimmModel_load_image(image_path) ==
    IF image_path.t # "str" THEN NotAString
    ELSE IF IsUrl(image_path.s) THEN Fetch(image_path)
    ELSE IF image_path.s \in ExistingFiles
         THEN LoadStep("ok", "", <<>>, <<"Image.open">>)
         ELSE LoadStep("FileNotFoundError", "", image_path.s, <<"Image.open">>)

\* auto.py: FileNotFoundError becomes ValueError(f"Local file not found: {image_path}")
Vision2SeqModel_load_image(image_path) ==
    IF image_path.t # "str" THEN NotAString
    ELSE IF IsUrl(image_path.s) THEN Fetch(image_path)
    ELSE IF image_path.s \in ExistingFiles
         THEN LoadStep("ok", "", <<>>, <<"Image.open">>)
         ELSE LoadStep("ValueError", "Local file not found", image_path.s,
                       <<"Image.open">>)

\* moondream.py: the same handler as auto.py
Moondream_load_image(image_path) ==
    IF image_path.t # "str" THEN NotAString
    ELSE IF IsUrl(image_path.s) THEN Fetch(image_path)
    ELSE IF image_path.s \in ExistingFiles
         THEN LoadStep("ok", "", <<>>, <<"Image.open">>)
         ELSE LoadStep("ValueError", "Local file not found", image_path.s,
                       <<"Image.open">>)

load_image(cls, image_path) ==
    CASE cls = "TimmModel" -> TimmModel_load_image(image_path)
      [] cls = "Vision2SeqModel" -> Vision2SeqModel_load_image(image_path)
      [] cls = "Moondream" -> Moondream_load_image(image_path)

\* The loop `for image_path in images: ... processed_images.append(image)`. Its
\* result is [outcome, message, path, events, images]: it stops at the first
\* image that raises.
\* a plausible slip: the image is inserted at the front of processed_images
RECURSIVE load_images_Prepend(_, _, _, _)
load_images_Prepend(cls, images, events, processed_images) ==
    IF images = <<>>
    THEN [outcome |-> "ok", message |-> "", path |-> <<>>, events |-> events,
          images |-> processed_images]
    ELSE LET step == load_image(cls, Head(images))
         IN  IF step.outcome # "ok"
             THEN [outcome |-> step.outcome, message |-> step.message,
                   path |-> step.path, events |-> events \o step.events,
                   images |-> <<>>]
             ELSE load_images_Prepend(cls, Tail(images), events \o step.events,
                                      <<Head(images)>> \o processed_images)

RECURSIVE load_images(_, _, _, _)
load_images(cls, images, events, processed_images) ==
    IF images = <<>>
    THEN [outcome |-> "ok", message |-> "", path |-> <<>>, events |-> events,
          images |-> processed_images]
    ELSE LET step == load_image(cls, Head(images))
         IN  IF step.outcome # "ok"
             THEN [outcome |-> step.outcome, message |-> step.message,
                   path |-> step.path, events |-> events \o step.events,
                   images |-> <<>>]
             ELSE load_images(cls, Tail(images), events \o step.events,
                              Append(processed_images, Head(images)))

\* what the external model answers for one image (and prompt, and top_k)
Answer(img, prompt, k) == [img |-> img, prompt |-> prompt, k |-> k]

\* A call's record: its arguments, whether the external library works (extOK),
\* what the call raised or "ok", the error's message and path, the I/O and
\* external computation it did, and the results it returned.
Done(cls, op, images, prompts, top_k, extOK, outcome, message, path, events, results) ==
    [cls |-> cls, op |-> op, images |-> images, prompts |-> prompts,
     top_k |-> top_k, extOK |-> extOK, outcome |-> outcome, message |-> message,
     path |-> path, events |-> events, results |-> results]

\* --- TimmModel

\* preprocess: the images, then transforms and torch.stack (which rejects an empty list)
TimmModel_preprocess(images) ==
    LET loaded == load_images("TimmModel", AsList(images), <<>>, <<>>)
    IN  IF loaded.outcome # "ok" THEN loaded
        ELSE IF loaded.images = <<>>
        THEN [loaded EXCEPT !.outcome = "ExternalError",
                            !.events = @ \o <<"torch.stack">>]
        ELSE [loaded EXCEPT !.events = @ \o <<"torch.stack">>]

TimmModel_infer(image, top_k, extOK) ==
    LET pre == TimmModel_preprocess(image)
    IN  IF pre.outcome # "ok"
        THEN Done("TimmModel", "infer", image, PyNone, top_k, extOK, pre.outcome,
                  pre.message, pre.path, pre.events, <<>>)
        ELSE IF ~extOK
        THEN Done("TimmModel", "infer", image, PyNone, top_k, extOK, "ExternalError",
                  "", <<>>, pre.events \o <<"model">>, <<>>)
        ELSE Done("TimmModel", "infer", image, PyNone, top_k, extOK, "ok", "", <<>>,
                  pre.events \o <<"model">>, <<Answer(pre.images[1], PyNone, top_k)>>)

TimmModel_infer_batch(images, top_k, extOK) ==
    LET pre == TimmModel_preprocess(images)
    IN  IF pre.outcome # "ok"
        THEN Done("TimmModel", "infer_batch", images, PyNone, top_k, extOK,
                  pre.outcome, pre.message, pre.path, pre.events, <<>>)
        ELSE IF ~extOK
        THEN Done("TimmModel", "infer_batch", images, PyNone, top_k, extOK,
                  "ExternalError", "", <<>>, pre.events \o <<"model">>, <<>>)
        ELSE Done("TimmModel", "infer_batch", images, PyNone, top_k, extOK, "ok", "",
                  <<>>, pre.events \o <<"model">>,
                  [i \in 1..Len(pre.images) |-> Answer(pre.images[i], PyNone, top_k)])

\* --- Vision2SeqModel

CountMismatch ==
    [outcome |-> "ValueError",
     message |-> "The number of images and prompts must be the same",
     path |-> <<>>, events |-> <<>>, images |-> <<>>]

Vision2SeqModel_preprocess(images, prompts) ==
    IF Len(AsList(images)) # Len(AsList(prompts))
    THEN CountMismatch
    ELSE LET loaded == load_images("Vision2SeqModel", AsList(images), <<>>, <<>>)
         IN  IF loaded.outcome # "ok" THEN loaded
             ELSE [loaded EXCEPT !.events = @ \o <<"processor">>]

\* predict and postprocess: model.generate and batch_decode give one text per row
\* of the batch, in the batch's order
Vision2SeqModel_postprocess(imgs, prompts) ==
    [i \in 1..Len(imgs) |-> Answer(imgs[i], prompts[i], 0)]

Vision2SeqModel_infer(image, prompt, extOK) ==
    LET pre == Vision2SeqModel_preprocess(image, prompt)
        outputs == Vision2SeqModel_postprocess(pre.images, AsList(prompt))
    IN  IF pre.outcome # "ok"
        THEN Done("Vision2SeqModel", "infer", image, prompt, 0, extOK, pre.outcome,
                  pre.message, pre.path, pre.events, <<>>)
        ELSE IF ~extOK
        THEN Done("Vision2SeqModel", "infer", image, prompt, 0, extOK,
                  "ExternalError", "", <<>>, pre.events \o <<"model.generate">>, <<>>)
        ELSE IF outputs = <<>>
        THEN Done("Vision2SeqModel", "infer", image, prompt, 0, extOK, "IndexError",
                  "", <<>>, pre.events \o <<"model.generate">>, <<>>)
        ELSE Done("Vision2SeqModel", "infer", image, prompt, 0, extOK, "ok", "", <<>>,
                  pre.events \o <<"model.generate">>, <<outputs[1]>>)

Vision2SeqModel_infer_batch(images, prompts, extOK) ==
    LET pre == Vision2SeqModel_preprocess(images, prompts)
    IN  IF pre.outcome # "ok"
        THEN Done("Vision2SeqModel", "infer_batch", images, prompts, 0, extOK,
                  pre.outcome, pre.message, pre.path, pre.events, <<>>)
        ELSE IF ~extOK
        THEN Done("Vision2SeqModel", "infer_batch", images, prompts, 0, extOK,
                  "ExternalError", "", <<>>, pre.events \o <<"model.generate">>, <<>>)
        ELSE Done("Vision2SeqModel", "infer_batch", images, prompts, 0, extOK, "ok",
                  "", <<>>, pre.events \o <<"model.generate">>,
                  Vision2SeqModel_postprocess(pre.images, AsList(prompts)))

\* self.stats.update_inference_count(n)
update_inference_count(count, n) == count + n

\* --- Moondream

Moondream_preprocess(images) ==
    load_images("Moondream", AsList(images), <<>>, <<>>)

Moondream_infer(image, prompt, extOK) ==
    LET pre == Moondream_preprocess(image)
    IN  IF pre.outcome # "ok"
        THEN Done("Moondream", "infer", image, prompt, 0, extOK, pre.outcome,
                  pre.message, pre.path, pre.events, <<>>)
        ELSE IF ~extOK
        THEN Done("Moondream", "infer", image, prompt, 0, extOK, "ExternalError", "",
                  <<>>, pre.events \o <<"model.encode_image">>, <<>>)
        ELSE Done("Moondream", "infer", image, prompt, 0, extOK, "ok", "", <<>>,
                  pre.events \o <<"model.encode_image", "model.answer_question">>,
                  <<Answer(PyList(pre.images), prompt, 0)>>)

\* `[prompt for prompt in prompts]`: a str is iterated character by character
IterPrompts(prompts) ==
    IF prompts.t = "list" THEN prompts.items
    ELSE [i \in 1..Len(prompts.s) |-> PyStr(<<prompts.s[i]>>)]

\* model.batch_answer(images, prompts, tokenizer): one answer per (image, prompt)
\* pair; what the library does with lists of different lengths is its own
\* business: it raises (extOK false) or answers the pairs there are (extOK true)
batch_answer(imgs, prompts) ==
    LET n == IF Len(imgs) < Len(prompts) THEN Len(imgs) ELSE Len(prompts)
    IN  [i \in 1..n |-> Answer(imgs[i], prompts[i], 0)]

Moondream_infer_batch(images, prompts, extOK) ==
    LET pre == Moondream_preprocess(images)
    IN  IF pre.outcome # "ok"
        THEN Done("Moondream", "infer_batch", images, prompts, 0, extOK, pre.outcome,
                  pre.message, pre.path, pre.events, <<>>)
        ELSE IF ~extOK
        THEN Done("Moondream", "infer_batch", images, prompts, 0, extOK,
                  "ExternalError", "", <<>>, pre.events \o <<"model.batch_answer">>,
                  <<>>)
        ELSE Done("Moondream", "infer_batch", images, prompts, 0, extOK, "ok", "",
                  <<>>, pre.events \o <<"model.batch_answer">>,
                  batch_answer(pre.images, IterPrompts(prompts)))

\* --- the arguments the calls are made with

RECURSIVE SeqsUpTo(_, _)
SeqsUpTo(S, n) ==
    IF n = 0 THEN {<<>>}
    ELSE SeqsUpTo(S, n - 1) \cup [1..n -> S]

ImageItems == {PyStr(PathA), PyStr(PathMissing), PyStr(UrlUp), PyStr(UrlDown), PyInt}
PromptItems == {PyStr(<<"p">>), PyStr(<<"q", "r">>)}
ImageArgs == ImageItems \cup {PyList(xs) : xs \in SeqsUpTo(ImageItems, MaxBatch)}
PromptArgs == PromptItems \cup {PyList(xs) : xs \in SeqsUpTo(PromptItems, MaxBatch)}
TopKs == {1, 5}

----------------------------------------------------------------------------
(* Actions of the registry and of construction.                            *)

Register(e) ==
    /\ e.id \in RegisteredIds(registry) \/ Len(registry) < MaxReg
    /\ registry' = register(registry, e)
    /\ out' = [op |-> "register", entry |-> e]
    /\ UNCHANGED <<inst, call, inference_count, processed>>

ListModels(wildcard, limit) ==
    /\ out' = [op |-> "list_models", wildcard |-> wildcard, limit |-> limit,
               rows |-> list_models(registry, wildcard, limit)]
    /\ UNCHANGED <<registry, inst, call, inference_count, processed>>

CreateModel(model_id, kwargs, env) ==
    /\ out' = [op |-> "create_model", model_id |-> model_id,
               result |-> create_model(registry, model_id, kwargs, env)]
    /\ UNCHANGED <<registry, inst, call, inference_count, processed>>

NewTimmModel(model_id, device, dtype, env) ==
    /\ inst' = TimmModel_init(model_id, device, dtype, env)
    /\ UNCHANGED <<registry, out, call, inference_count, processed>>

NewVision2SeqModel(model_id, device, dtype, env) ==
    /\ inst' = Vision2SeqModel_init(model_id, device, dtype, env)
    /\ UNCHANGED <<registry, out, call, inference_count, processed>>

NewMoondream(model_id, device, dtype, env) ==
    /\ inst' = Moondream_init(model_id, device, dtype, env)
    /\ UNCHANGED <<registry, out, call, inference_count, processed>>

NoCall == [cls |-> "none"]

\* The calls are synchronous: one is made when none is in progress, and Return
\* hands its result to the caller.
TimmInfer ==
    /\ call = NoCall
    /\ \E image \in ImageArgs, top_k \in TopKs, extOK \in BOOLEAN :
          call' = TimmModel_infer(image, top_k, extOK)
    /\ UNCHANGED <<registry, out, inst, inference_count, processed>>

TimmInferBatch ==
    /\ call = NoCall
    /\ \E images \in ImageArgs, top_k \in TopKs, extOK \in BOOLEAN :
          call' = TimmModel_infer_batch(images, top_k, extOK)
    /\ UNCHANGED <<registry, out, inst, inference_count, processed>>

\* infer counts 1 once the block has run to its end
Vision2SeqInfer ==
    /\ call = NoCall
    /\ inference_count < MaxCount
    /\ \E image \in ImageArgs, prompt \in PromptArgs, extOK \in BOOLEAN :
          LET c == Vision2SeqModel_infer(image, prompt, extOK)
          IN  /\ call' = c
              /\ inference_count' =
                    IF c.outcome = "ok"
                    THEN update_inference_count(inference_count, 1)
                    ELSE inference_count
              /\ processed' = IF c.outcome = "ok" THEN processed + 1 ELSE processed
    /\ UNCHANGED <<registry, out, inst>>

\* infer_batch counts len(images), of the argument as it was passed
Vision2SeqInferBatch ==
    /\ call = NoCall
    /\ inference_count < MaxCount
    /\ \E images \in ImageArgs, prompts \in PromptArgs, extOK \in BOOLEAN :
          LET c == Vision2SeqModel_infer_batch(images, prompts, extOK)
          IN  /\ call' = c
              /\ inference_count' =
                    IF c.outcome = "ok"
                    THEN update_inference_count(inference_count, PyLen(images))
                    ELSE inference_count
              /\ processed' = IF c.outcome = "ok"
                              THEN processed + Len(c.results)
                              ELSE processed
    /\ UNCHANGED <<registry, out, inst>>

MoondreamInfer ==
    /\ call = NoCall
    /\ \E image \in ImageArgs, prompt \in PromptItems \cup {PyNone}, extOK \in BOOLEAN :
          call' = Moondream_infer(image, prompt, extOK)
    /\ UNCHANGED <<registry, out, inst, inference_count, processed>>

MoondreamInferBatch ==
    /\ call = NoCall
    /\ \E images \in ImageArgs, prompts \in PromptArgs, extOK \in BOOLEAN :
          call' = Moondream_infer_batch(images, prompts, extOK)
    /\ UNCHANGED <<registry, out, inst, inference_count, processed>>

Return ==
    /\ call # NoCall
    /\ call' = NoCall
    /\ UNCHANGED <<registry, out, inst, inference_count, processed>>

Init ==
    /\ registry = <<MoondreamEntry>>
    /\ out = NoOut
    /\ inst = NoInst
    /\ call = NoCall
    /\ inference_count = 0
    /\ processed = 0

NextRegistry ==
    \/ \E e \in Registrations : Register(e)
    \/ \E w \in Wildcards, l \in Limits : ListModels(w, l)
    \/ \E id \in ModelIds, kw \in Kwargs, env \in CreateEnvs : CreateModel(id, kw, env)

SpecRegistry == Init /\ [][NextRegistry]_vars

NextCtor ==
    \/ \E id \in {VitId}, d \in Devices, t \in Dtypes, env \in CtorEnvs :
          NewTimmModel(id, d, t, env)
    \/ \E id \in {BlipId}, d \in Devices, t \in Dtypes, env \in CtorEnvs :
          NewVision2SeqModel(id, d, t, env)
    \/ \E id \in {MoondreamId}, d \in Devices, t \in Dtypes, env \in CtorEnvs :
          NewMoondream(id, d, t, env)

SpecCtor == Init /\ [][NextCtor]_vars

NextInfer ==
    \/ TimmInfer
    \/ TimmInferBatch
    \/ Vision2SeqInfer
    \/ Vision2SeqInferBatch
    \/ MoondreamInfer
    \/ MoondreamInferBatch
    \/ Return

SpecInfer == Init /\ [][NextInfer]_vars

----------------------------------------------------------------------------
(* Claims about construction (SpecCtor).                                   *)

ValidDtypes == {"float32", "float16", "bfloat16"}

\* C1: a construction of any wrapper with a dtype outside float32 / float16 /
\* bfloat16 raises a value error, and no external loader has been called: the
\* instance stays Unloaded.
C1_InvalidDtypeFailsBeforeLoad ==
    (inst.cls \in Classes /\ inst.dtype_arg \notin ValidDtypes)
        => /\ inst.outcome = "ValueError"
           /\ inst.events = <<>>
           /\ inst.state = "Unloaded"

C1_Witness ==
    /\ inst.cls = "TimmModel"
    /\ inst.dtype_arg = "int8"
    /\ inst.loadOK
    /\ inst.outcome = "ValueError"

\* C9: a Moondream that was constructed is on the device the caller asked for:
\* "cpu" and "cuda" as given, "auto" as "cuda" when CUDA is available, else "cpu".
C9_DeviceAsRequested ==
    (inst.cls = "Moondream" /\ inst.outcome = "ok")
        => inst.device = (IF inst.device_arg = "auto"
                          THEN (IF inst.cuda THEN "cuda" ELSE "cpu")
                          ELSE inst.device_arg)

----------------------------------------------------------------------------
(* Claims about the registry and core.py (SpecRegistry).                   *)

\* the id contains the wildcard, case-insensitively (None matches every id)
Matches(wildcard, id) ==
    \/ wildcard = PyNone
    \/ /\ wildcard # PyNone
       /\ \E off \in 0..(Len(id) - Len(wildcard.s)) :
             \A j \in 1..Len(wildcard.s) :
                 LowerChar(wildcard.s[j]) = LowerChar(id[off + j])

MatchIdx(reg, wildcard) == {i \in 1..Len(reg) : Matches(wildcard, reg[i].id)}

\* the position in the registry of the k-th matching entry
KthMatch(reg, wildcard, k) ==
    CHOOSE i \in MatchIdx(reg, wildcard) :
        Cardinality({m \in MatchIdx(reg, wildcard) : m <= i}) = k

HasEllipsis(rows) == \E j \in 1..Len(rows) : rows[j] = EllipsisRow

C6Holds(reg, t) ==
    LET n == Cardinality(MatchIdx(reg, t.wildcard))
    IN  /\ \A j \in 1..Len(t.rows) :
              t.rows[j] # EllipsisRow
                  => /\ j <= n
                     /\ t.rows[j] = Row(reg[KthMatch(reg, t.wildcard, j)])
        /\ ~HasEllipsis(t.rows) => Len(t.rows) = n
        /\ (t.wildcard = PyNone /\ ~HasEllipsis(t.rows))
              => t.rows = [i \in 1..Len(reg) |-> Row(reg[i])]

\* C6: every model row list_models displays is a registered entry whose id
\* contains the wildcard case-insensitively, the rows are in registration
\* order, and with no wildcard every registered entry is a candidate row.
C6_ListingFiltered ==
    out.op = "list_models" => C6Holds(registry, out)

C6_Witness ==
    /\ out.op = "list_models"
    /\ out.wildcard = PyStr(<<"b">>)
    /\ Len(out.rows) = 2
    /\ ~HasEllipsis(out.rows)
    /\ Len(registry) = 3

C7Holds(reg, t) ==
    LET n == Cardinality(MatchIdx(reg, t.wildcard))
        shownRows == IF n > t.limit THEN t.limit ELSE n
    IN  t.limit >= 0
          => /\ \A j \in 1..shownRows :
                   /\ j <= Len(t.rows)
                   /\ t.rows[j] = Row(reg[KthMatch(reg, t.wildcard, j)])
             /\ IF n > t.limit
                THEN /\ Len(t.rows) = t.limit + 2
                     /\ t.rows[t.limit + 1] = EllipsisRow
                     /\ t.rows[t.limit + 2] = EllipsisRow
                ELSE Len(t.rows) = n

\* C7: for a limit >= 0 list_models displays the first `limit` matching entries
\* followed by exactly two ellipsis rows when more than `limit` entries match,
\* and all matching entries and no ellipsis row otherwise.
C7_ListingCapped ==
    out.op = "list_models" => C7Holds(registry, out)

C7_Witness ==
    /\ out.op = "list_models"
    /\ out.limit = 1
    /\ Len(out.rows) = 3
    /\ out.rows[1] # EllipsisRow
    /\ out.rows[2] = EllipsisRow
    /\ out.rows[3] = EllipsisRow

C8Holds(reg, model_id, c) ==
    IF model_id \in RegisteredIds(reg)
    THEN /\ c.outcome # "LookupError"
         /\ Cardinality({i \in 1..Len(registry_list_models(reg)) :
                            registry_list_models(reg)[i].id = model_id}) = 1
    ELSE /\ c.outcome = "LookupError"
         /\ c.events = <<>>
         /\ c.state = "Unloaded"

\* C8: create_model of an id that is not registered raises a lookup error and
\* builds no wrapper; create_model of a registered id raises no lookup error,
\* and the listing holds exactly one entry with that id.
C8_CreateModelLooksUp ==
    out.op = "create_model" => C8Holds(registry, out.model_id, out.result)

C8_Witness ==
    /\ out.op = "create_model"
    /\ out.model_id = VitId
    /\ out.result.outcome = "LookupError"
    /\ Len(registry) >= 2

----------------------------------------------------------------------------
(* Claims about preprocess / infer / infer_batch (SpecInfer).              *)

TextConditioned == {"Vision2SeqModel", "Moondream"}

\* the image can be resolved: an existing local file or a reachable URL
Resolvable(item) ==
    /\ item.t = "str"
    /\ IF IsUrl(item.s) THEN item.s \in ReachableUrls ELSE item.s \in ExistingFiles

IsMissingFile(item) ==
    item.t = "str" /\ ~IsUrl(item.s) /\ item.s \notin ExistingFiles

IsDownUrl(item) ==
    item.t = "str" /\ IsUrl(item.s) /\ item.s \notin ReachableUrls

\* the call gets as far as loading image i: the counts agree (where the wrapper
\* compares them) and every image before i resolves
Reaches(c, i) ==
    /\ c.cls = "Vision2SeqModel" => Len(AsList(c.images)) = Len(AsList(c.prompts))
    /\ \A j \in 1..(i - 1) : Resolvable(AsList(c.images)[j])

\* C2: infer_batch of a text-conditioned wrapper with an image list and a
\* prompt list of different lengths raises a value error, and has done no I/O
\* and no model computation.
C2_MismatchFailsBeforeIO ==
    ( /\ call.cls \in TextConditioned
      /\ call.op = "infer_batch"
      /\ call.images.t = "list"
      /\ call.prompts.t = "list"
      /\ Len(call.images.items) # Len(call.prompts.items) )
        => /\ call.outcome = "ValueError"
           /\ call.events = <<>>

\* C3: a call of any wrapper with a nonexistent local file among its images
\* raises a value error, and when the call gets as far as that file the
\* error's message names the path.
C3_MissingFileIsValueError ==
    call.cls \in Classes =>
        \A i \in 1..Len(AsList(call.images)) :
            IsMissingFile(AsList(call.images)[i])
                => /\ call.outcome = "ValueError"
                   /\ Reaches(call, i)
                         => /\ call.message = "Local file not found"
                            /\ call.path = AsList(call.images)[i].s

\* C4: a call of any wrapper that fetches a URL whose fetch fails raises a
\* value error; the network error itself never reaches the caller.
C4_FetchFailureIsValueError ==
    call.cls \in Classes =>
        /\ call.outcome # "RequestException"
        /\ \A i \in 1..Len(AsList(call.images)) :
              (IsDownUrl(AsList(call.images)[i]) /\ Reaches(call, i))
                  => call.outcome = "ValueError"

\* C5: infer_batch of any wrapper with a list of N >= 1 resolvable images (and,
\* for a text-conditioned wrapper, a list of N prompts) returns N results, and
\* result i is the external model's answer for image i (and prompt i), the
\* external model working.
C5_BatchKeepsCountAndOrder ==
    ( /\ call.cls \in Classes
      /\ call.op = "infer_batch"
      /\ call.images.t = "list"
      /\ Len(call.images.items) >= 1
      /\ \A i \in 1..Len(call.images.items) : Resolvable(call.images.items[i])
      /\ call.cls \in TextConditioned
            => /\ call.prompts.t = "list"
               /\ Len(call.prompts.items) = Len(call.images.items)
      /\ call.extOK )
        => /\ call.outcome = "ok"
           /\ Len(call.results) = Len(call.images.items)
           /\ \A i \in 1..Len(call.images.items) :
                 /\ i <= Len(call.results)
                 /\ call.results[i].img = call.images.items[i]
                 /\ call.cls \in TextConditioned
                       => call.results[i].prompt = call.prompts.items[i]

C5_Witness ==
    /\ call.cls = "Vision2SeqModel"
    /\ call.op = "infer_batch"
    /\ call.images = PyList(<<PyStr(UrlUp), PyStr(PathA)>>)
    /\ call.prompts = PyList(<<PyStr(<<"q", "r">>), PyStr(<<"p">>)>>)
    /\ call.outcome = "ok"
    /\ Len(call.results) = 2

\* C10: the Vision2SeqModel inference count is the number of logical inputs
\* its infer and infer_batch calls have returned results for; a call that
\* raises leaves it unchanged.
C10_CountIsInputsProcessed ==
    inference_count = processed

====
